---- MODULE Spec2Model ----
(***************************************************************************)
(* A model of goblex, the buffering lexer of src/goblex.go.                *)
(*                                                                         *)
(* A string is a sequence of runes and a rune is its code point, so "#a"   *)
(* is <<35, 97>> and "" is <<>>.  The Lexer struct is the record lxr; each *)
(* method is an operator from a Lexer record (and the arguments) to the    *)
(* outcomes of the call, an outcome being [lxr |-> the Lexer afterwards,   *)
(* ret |-> the value returned].  A method that ranges over the map         *)
(* ignoreTokens has one outcome per iteration order Go may choose, so the  *)
(* methods that reach skipIgnores yield a set of outcomes.                 *)
(***************************************************************************)
EXTENDS Integers, Sequences, FiniteSets, TLC

\* ------------------------------------------------------------------ bounds

\* Longest input text handed to NewLexer.
MaxInput == 3

\* Longest list of terminators / candidates handed to one call.
MaxTokens == 2

\* Longest input text of a Lexer that is pulled by NextEmittedToken.
MaxStepInput == 1

\* The longest input text under SpecDrive.
MaxDriveInput == 1

\* The longest input text under SpecNul.
MaxNulInput == 2

\* The longest input text under SpecIdent.
MaxIdentInput == 3

\* ------------------------------------------------------ program constants

RuneEOF == 0

ChanCap == 3

TokenTypeEOF == -1

\* TokenTypeError TokenType = -2
TokenTypeError == -2

\* StringEOF, "EOF"
StringEOF == <<69, 79, 70>>

\* ---------------------------------------------------------------- unicode

\* unicode.IsSpace on the Latin-1 range.
IsSpace(r) == r \in {9, 10, 11, 12, 13, 32, 133, 160}

\* unicode.IsLetter on the ASCII range.
IsLetter(r) == r \in (65..90) \cup (97..122)

\* unicode.IsDigit answering false for every rune.
IsNeverDigit(r) == FALSE

\* unicode.IsDigit on the ASCII range.
IsDigit(r) == r \in 48..57

\* The test of AddIgnoreTokens with only the empty literal dropped.
NotEmpty(tkn) == tkn # <<>>

\* strings.TrimSpace(tkn) != "": some rune of tkn is not whitespace.
NotBlank(tkn) == \E i \in 1..Len(tkn) : ~IsSpace(tkn[i])

\* ----------------------------------------------------------------- cursor

Outcome(l, r) == [lxr |-> l, ret |-> r]

\* read(): the head of runeCache if there is one, else the next rune of the
\* source, else RuneEOF.
read(l) ==
    IF Len(l.runeCache) > 0
    THEN Outcome([l EXCEPT !.currentRune = Head(l.runeCache),
                           !.runeCache = Tail(l.runeCache)],
                 Head(l.runeCache))
    ELSE IF Len(l.inputBuffer) = 0
    THEN Outcome([l EXCEPT !.currentRune = RuneEOF], RuneEOF)
    ELSE Outcome([l EXCEPT !.currentRune = Head(l.inputBuffer),
                           !.inputBuffer = Tail(l.inputBuffer)],
                 Head(l.inputBuffer))

\* n successive calls of read(), the returned runes dropped.
RECURSIVE readTimes(_, _)
readTimes(l, n) == IF n <= 0 THEN l ELSE readTimes(read(l).lxr, n - 1)

\* The loop of peek(): iteration i of numRunes takes the head of the cache,
\* or reads the source when the cache is empty; a rune obtained goes to
\* readBuf.
RECURSIVE peekLoop(_, _, _, _, _)
peekLoop(i, numRunes, cache, src, readBuf) ==
    IF i >= numRunes
    THEN [cache |-> cache, src |-> src, readBuf |-> readBuf]
    ELSE IF Len(cache) > 0
    THEN peekLoop(i + 1, numRunes, Tail(cache), src, Append(readBuf, Head(cache)))
    ELSE IF Len(src) > 0
    THEN peekLoop(i + 1, numRunes, cache, Tail(src), Append(readBuf, Head(src)))
    ELSE peekLoop(i + 1, numRunes, cache, src, readBuf)

\* peek(numRunes): what the loop left of the cache, followed by readBuf,
\* becomes the cache; peekbuf (equal to readBuf) is returned.
peek(l, numRunes) ==
    LET p == peekLoop(0, numRunes, l.runeCache, l.inputBuffer, <<>>)
    IN  Outcome([l EXCEPT !.runeCache = p.cache \o p.readBuf,
                          !.inputBuffer = p.src],
                p.readBuf)

\* ----------------------------------------------------------- match engine

\* The loop of CurrentTokenIsOneOf from candidate i on.
RECURSIVE oneOfLoop(_, _, _)
oneOfLoop(l, tokens, i) ==
    IF i > Len(tokens)
    THEN Outcome(l, <<>>)
    ELSE LET tkn == tokens[i]
         IN  IF tkn = <<>>
             THEN oneOfLoop(l, tokens, i + 1)
             ELSE IF tkn[1] # l.currentRune
             THEN oneOfLoop(l, tokens, i + 1)
             ELSE LET numPeeks == Len(tkn) - 1
                      p == IF numPeeks > 0 THEN peek(l, numPeeks) ELSE Outcome(l, <<>>)
                      bufRunes == <<l.currentRune>> \o p.ret
                  IN  IF tkn = bufRunes
                      THEN Outcome(p.lxr, tkn)
                      ELSE oneOfLoop(p.lxr, tokens, i + 1)

\* CurrentTokenIsOneOf(tokens...): ret is [found, token].
CurrentTokenIsOneOf(l, tokens) ==
    IF l.currentRune = RuneEOF
    THEN Outcome(l, [found |-> FALSE, token |-> <<>>])
    ELSE LET o == oneOfLoop(l, tokens, 1)
         IN  Outcome(o.lxr, [found |-> o.ret # <<>>, token |-> o.ret])

\* CurrentTokenIs(t).
CurrentTokenIs(l, t) ==
    LET o == CurrentTokenIsOneOf(l, <<t>>)
    IN  Outcome(o.lxr, o.ret.found)

\* ---------------------------------------------------------- ignore filter

\* AddIgnoreTokens(tokens...), from token i on.
RECURSIVE AddIgnoreFrom(_, _, _)
AddIgnoreFrom(m, tokens, i) ==
    IF i > Len(tokens)
    THEN m
    ELSE AddIgnoreFrom(IF NotBlank(tokens[i])
                       THEN (tokens[i] :> TRUE) @@ m
                       ELSE m,
                       tokens, i + 1)

AddIgnoreTokens(l, tokens) ==
    [l EXCEPT !.ignoreTokens = AddIgnoreFrom(l.ignoreTokens, tokens, 1)]

\* RemoveIgnoreTokens(tokens...), from token i on.
RECURSIVE RemoveIgnoreFrom(_, _, _)
RemoveIgnoreFrom(m, tokens, i) ==
    IF i > Len(tokens)
    THEN m
    ELSE RemoveIgnoreFrom(IF NotBlank(tokens[i])
                          THEN (tokens[i] :> FALSE) @@ m
                          ELSE m,
                          tokens, i + 1)

RemoveIgnoreTokens(l, tokens) ==
    [l EXCEPT !.ignoreTokens = RemoveIgnoreFrom(l.ignoreTokens, tokens, 1)]

\* The range loop of skipIgnores with the test of the map's value left out: a
\* key that RemoveIgnoreTokens has set to false is skipped like an enabled one.
RECURSIVE skipIgnoresLoopAnyKey(_, _)
skipIgnoresLoopAnyKey(l, left) ==
    IF left = {}
    THEN {Outcome(l, FALSE)}
    ELSE UNION {
           LET c == CurrentTokenIs(l, ignore)
           IN  IF c.ret
               THEN {Outcome(readTimes(c.lxr, Len(ignore)), TRUE)}
               ELSE skipIgnoresLoopAnyKey(c.lxr, left \ {ignore})
           : ignore \in left }

\* The range loop of skipIgnores over the keys not yet visited: Go visits the
\* keys of a map in an order of its choosing, so every key left may be next.
RECURSIVE skipIgnoresLoop(_, _)
skipIgnoresLoop(l, left) ==
    IF left = {}
    THEN {Outcome(l, FALSE)}
    ELSE UNION {
           IF ~l.ignoreTokens[ignore]
           THEN skipIgnoresLoop(l, left \ {ignore})
           ELSE LET c == CurrentTokenIs(l, ignore)
                IN  IF c.ret
                    THEN {Outcome(readTimes(c.lxr, Len(ignore)), TRUE)}
                    ELSE skipIgnoresLoop(c.lxr, left \ {ignore})
           : ignore \in left }

\* skipIgnores().
skipIgnores(l) ==
    IF l.currentRune = RuneEOF
    THEN {Outcome(l, FALSE)}
    ELSE skipIgnoresLoop(l, DOMAIN l.ignoreTokens)

\* ------------------------------------------------------------- whitespace

\* The loop of EatWhitespace, entered on a whitespace rune.
RECURSIVE eatLoop(_)
eatLoop(l) ==
    LET n == read(l).lxr
    IN  IF n.currentRune = RuneEOF
        THEN Outcome(n, FALSE)
        ELSE IF ~IsSpace(n.currentRune)
        THEN Outcome(n, TRUE)
        ELSE eatLoop(n)

\* EatWhitespace() that eats nothing.
EatsNothing(l) == Outcome(l, FALSE)

\* EatWhitespace().
EatWhitespace(l) ==
    IF ~IsSpace(l.currentRune)
    THEN Outcome(l, FALSE)
    ELSE eatLoop(l)

\* if lxr.AutoEatWhitespace { lxr.EatWhitespace() }
AutoEat(l) == IF l.AutoEatWhitespace THEN EatWhitespace(l).lxr ELSE l

\* ----------------------------------------------------- capture primitives

\* tokenBuffer.WriteRune(ch)
WriteRune(l, ch) == [l EXCEPT !.tokenBuffer = Append(l.tokenBuffer, ch)]

\* tokenBuffer.Reset() when clearPrevious
ResetIf(l, clearPrevious) ==
    IF clearPrevious THEN [l EXCEPT !.tokenBuffer = <<>>] ELSE l

\* The terminator loop inside CaptureUntilOneOf, from terminator i on: a
\* blank terminator is passed over, the first one CurrentTokenIs accepts is
\* foundToken.
RECURSIVE findLoop(_, _, _)
findLoop(l, tokens, i) ==
    IF i > Len(tokens)
    THEN Outcome(l, <<>>)
    ELSE IF tokens[i] = <<>>
    THEN findLoop(l, tokens, i + 1)
    ELSE LET c == CurrentTokenIs(l, tokens[i])
         IN  IF c.ret
             THEN Outcome(c.lxr, tokens[i])
             ELSE findLoop(c.lxr, tokens, i + 1)

\* The for loop of CaptureUntilOneOf with the terminators tested before the
\* ignore literals are skipped.
RECURSIVE captureLoopTerminatorFirst(_, _, _)
captureLoopTerminatorFirst(l, skipWhitespace, tokens) ==
    LET e == IF skipWhitespace THEN EatWhitespace(l) ELSE Outcome(l, FALSE)
    IN  IF e.ret
        THEN captureLoopTerminatorFirst(e.lxr, skipWhitespace, tokens)
        ELSE LET ch == e.lxr.currentRune
                 f  == findLoop(e.lxr, tokens, 1)
             IN  IF ch = RuneEOF
                 THEN {Outcome(e.lxr, <<>>)}
                 ELSE IF f.ret # <<>>
                 THEN {f}
                 ELSE UNION {
                        IF s.ret
                        THEN captureLoopTerminatorFirst(s.lxr, skipWhitespace, tokens)
                        ELSE captureLoopTerminatorFirst(read(WriteRune(s.lxr, ch)).lxr,
                                                        skipWhitespace, tokens)
                        : s \in skipIgnores(f.lxr) }

\* The for loop of CaptureUntilOneOf; ret is foundToken when the loop ends.
RECURSIVE captureLoop(_, _, _)
captureLoop(l, skipWhitespace, tokens) ==
    LET e == IF skipWhitespace THEN EatWhitespace(l) ELSE Outcome(l, FALSE)
    IN  IF e.ret
        THEN captureLoop(e.lxr, skipWhitespace, tokens)
        ELSE LET ch == e.lxr.currentRune
             IN  IF ch = RuneEOF
                 THEN {Outcome(e.lxr, <<>>)}
                 ELSE UNION {
                        IF s.ret
                        THEN captureLoop(s.lxr, skipWhitespace, tokens)
                        ELSE LET f == findLoop(s.lxr, tokens, 1)
                             IN  IF f.ret # <<>>
                                 THEN {f}
                                 ELSE captureLoop(read(WriteRune(f.lxr, ch)).lxr,
                                                  skipWhitespace, tokens)
                        : s \in skipIgnores(e.lxr) }

\* CaptureUntilOneOf(skipWhitespace, tokens...)
CaptureUntilOneOf(l, skipWhitespace, tokens) ==
    IF Len(tokens) < 1 \/ l.currentRune = RuneEOF
    THEN {Outcome(l, <<>>)}
    ELSE { Outcome([o.lxr EXCEPT !.lastKnownToken = o.ret], o.ret)
           : o \in captureLoop(l, skipWhitespace, tokens) }

\* CaptureUntil that, when done, puts the current symbol back in front of
\* the lookahead cache.
CaptureUntilRewinds(l, skipWhitespace, until) ==
    IF until = <<>>
    THEN {Outcome(l, FALSE)}
    ELSE { Outcome([o.lxr EXCEPT !.runeCache = <<o.lxr.currentRune>> \o @], o.ret # <<>>)
           : o \in CaptureUntilOneOf(l, skipWhitespace, <<until>>) }

\* CaptureUntil(skipWhitespace, until)
CaptureUntil(l, skipWhitespace, until) ==
    IF until = <<>>
    THEN {Outcome(l, FALSE)}
    ELSE { Outcome(o.lxr, o.ret # <<>>)
           : o \in CaptureUntilOneOf(l, skipWhitespace, <<until>>) }

\* The for loop of CaptureIdent; ret is foundIdent.
RECURSIVE identLoop(_, _)
identLoop(l, foundIdent) ==
    LET ch == l.currentRune
    IN  IF ch = RuneEOF
        THEN {Outcome(l, foundIdent)}
        ELSE UNION {
               IF s.ret
               THEN identLoop(AutoEat(s.lxr), foundIdent)
               ELSE IF ~IsLetter(ch) /\ ~IsDigit(ch) /\ ch # 95
               THEN {Outcome(s.lxr, foundIdent)}
               ELSE identLoop(read(WriteRune(s.lxr, ch)).lxr, TRUE)
               : s \in skipIgnores(l) }

\* CaptureIdent()
CaptureIdent(l) ==
    UNION { { Outcome(IF s.ret THEN AutoEat(s.lxr) ELSE s.lxr, o.ret)
              : s \in skipIgnores(AutoEat(o.lxr)) }
            : o \in identLoop(AutoEat(l), FALSE) }

\* for lxr.skipIgnores() { if lxr.AutoEatWhitespace { lxr.EatWhitespace() } }
RECURSIVE trailingIgnores(_)
trailingIgnores(l) ==
    UNION { IF s.ret THEN trailingIgnores(AutoEat(s.lxr)) ELSE {s.lxr}
            : s \in skipIgnores(l) }

\* The loop of ConsumeCurrentToken: i reads, each rune read is written.
RECURSIVE consumeRunes(_, _)
consumeRunes(l, i) ==
    IF i <= 0
    THEN l
    ELSE LET r == read(l)
         IN  consumeRunes(WriteRune(r.lxr, r.ret), i - 1)

\* ConsumeCurrentToken(clearPrevious)
ConsumeCurrentToken(l, clearPrevious) ==
    IF l.lastKnownToken = <<>>
    THEN {Outcome(l, FALSE)}
    ELSE LET c == CurrentTokenIs(l, l.lastKnownToken)
         IN  IF ~c.ret \/ c.lxr.currentRune = RuneEOF
             THEN {Outcome(c.lxr, FALSE)}
             ELSE LET w == WriteRune(ResetIf(c.lxr, clearPrevious), c.lxr.currentRune)
                      m == consumeRunes(w, Len(l.lastKnownToken) - 1)
                  IN  { Outcome(t, TRUE)
                        : t \in trailingIgnores(AutoEat(read(m).lxr)) }

\* SkipCurrentToken with one read fewer than the literal has runes.
SkipLeavesLastRune(l, clearPrevious) ==
    LET c == CurrentTokenIs(l, l.lastKnownToken)
    IN  IF l.lastKnownToken = <<>> \/ ~c.ret \/ c.lxr.currentRune = RuneEOF
        THEN {Outcome(c.lxr, FALSE)}
        ELSE { Outcome(t, TRUE)
               : t \in trailingIgnores(AutoEat(
                     readTimes(ResetIf(c.lxr, clearPrevious),
                               Len(l.lastKnownToken) - 1))) }

\* SkipCurrentToken(clearPrevious)
SkipCurrentToken(l, clearPrevious) ==
    LET c == CurrentTokenIs(l, l.lastKnownToken)
    IN  IF l.lastKnownToken = <<>> \/ ~c.ret \/ c.lxr.currentRune = RuneEOF
        THEN {Outcome(c.lxr, FALSE)}
        ELSE { Outcome(t, TRUE)
               : t \in trailingIgnores(AutoEat(
                     readTimes(ResetIf(c.lxr, clearPrevious), Len(l.lastKnownToken)))) }

\* Flush()
Flush(l) == Outcome([l EXCEPT !.tokenBuffer = <<>>], l.tokenBuffer)

\* IsEOF()
IsEOF(l) == l.currentRune = RuneEOF

\* ------------------------------------------------------- emission channel

\* defaultToken{tokenType, value}
Token(tokenType, value) == [tokenType |-> tokenType, value |-> value]

\* A send on lxr.tokens blocks while the channel holds ChanCap tokens.
CanSend(l) == Len(l.tokens) < ChanCap

\* Emit with the capture buffer kept.
EmitKeepsBuffer(l, tokenType) ==
    [l EXCEPT !.tokens = Append(l.tokens, Token(tokenType, l.tokenBuffer))]

\* Emit(tokenType), the send having room.
Emit(l, tokenType) ==
    [l EXCEPT !.tokens = Append(l.tokens, Token(tokenType, l.tokenBuffer)),
              !.tokenBuffer = <<>>]

\* EmitToken with the token put at the head of the queue.
EmitTokenAtHead(l, token) == [l EXCEPT !.tokens = <<token>> \o l.tokens]

\* EmitToken(token), the send having room.
EmitToken(l, token) == [l EXCEPT !.tokens = Append(l.tokens, token)]

\* Errorf(format, args...), the send having room: the token of type
\* TokenTypeError whose value is the formatted message is sent. The LexFn it
\* returns is nil.
Errorf(l, message) ==
    [l EXCEPT !.tokens = Append(l.tokens, Token(TokenTypeError, message))]

\* shutdown(): close(lxr.tokens).
shutdown(l) == [l EXCEPT !.closed = TRUE]

\* The select of NextEmittedToken with lxr.state run before the channel is
\* looked at.
SelectBranchStateFirst(l) ==
    IF l.state # "nil"
    THEN "step"
    ELSE IF Len(l.tokens) > 0
    THEN "receive"
    ELSE "eof"

\* The select of NextEmittedToken: the receive when a token is queued, else
\* the receive of the zero Token when the channel is closed and empty, else
\* the default branch, which runs lxr.state or, when that is nil, ends.
SelectBranch(l) ==
    IF Len(l.tokens) > 0
    THEN "receive"
    ELSE IF l.closed
    THEN "closed"
    ELSE IF l.state # "nil"
    THEN "step"
    ELSE "eof"

\* The default branch with lxr.state == nil: ioutil.ReadAll(lxr.inputBuffer),
\* lxr.currentRune = RuneEOF.
DrainInput(l) == [l EXCEPT !.inputBuffer = <<>>, !.currentRune = RuneEOF]

\* ----------------------------------------------------------- construction

\* NewLexer without the l.read() that primes the cursor.
NewLexerUnprimed(input, begin) ==
    [AutoEatWhitespace |-> TRUE,
     ignoreTokens      |-> <<>>,
     inputBuffer       |-> input,
     tokens            |-> <<>>,
     state             |-> begin,
     begin             |-> begin,
     closed            |-> FALSE,
     tokenBuffer       |-> <<>>,
     currentRune       |-> 0,
     lastKnownToken    |-> <<>>,
     runeCache         |-> <<>>]

\* NewLexer(name, input, begin): the struct literal, then l.read().
NewLexer(input, begin) ==
    read([AutoEatWhitespace |-> TRUE,
          ignoreTokens      |-> <<>>,
          inputBuffer       |-> input,
          tokens            |-> <<>>,
          state             |-> begin,
          begin             |-> begin,
          closed            |-> FALSE,
          tokenBuffer       |-> <<>>,
          currentRune       |-> 0,
          lastKnownToken    |-> <<>>,
          runeCache         |-> <<>>]).lxr

\* ------------------------------------------------------------------ state

\* lxr    the Lexer
\* input  the text NewLexer was given (kept to state the claims)
\* pc     where the single thread of control is: "idle" in the consumer,
\*        "select" at the select of NextEmittedToken, "step" inside the LexFn
\*        that NextEmittedToken runs, "runStep" inside the LexFn that Run
\*        runs, "blocked" in a send that cannot proceed, "panicked" after a
\*        send on, or a close of, the closed channel
\* got    the token NextEmittedToken returned, until it is called again
VARIABLES lxr, input, pc, got

vars == <<lxr, input, pc, got>>

\* The runes of the input texts: ' ', '#', '*', 'a'.
Alphabet == {32, 35, 42, 97}

\* Every list over S of at most n entries.
ListsOver(S, n) == UNION { [1..k -> S] : k \in 0..n }

\* The literals the consumer searches for: "", " ", "#", "#a", "#a*".
Literals == {<<>>, <<32>>, <<35>>, <<35, 97>>, <<35, 97, 42>>}

\* The literals the consumer asks to ignore: "", " ", "*".
IgnoreLiterals == {<<>>, <<32>>, <<42>>}

\* The token types the consumer emits (basicTokenType of the tests).
TokenTypes == {0}

\* The tokens the consumer builds itself and hands to EmitToken.
CustomTokens == {Token(1, <<97>>)}

\* No token: what got holds while no NextEmittedToken has returned.
NoToken == Token(-3, <<>>)

\* The zero value of Token (a nil interface), which a receive on the closed
\* and empty channel yields.
NilToken == Token(-4, <<>>)

\* The messages Errorf formats: "e".
Messages == {<<101>>}

InitWith(maxInput) ==
    /\ input \in ListsOver(Alphabet, maxInput)
    /\ lxr = NewLexer(input, "lexFn")
    /\ pc = "idle"
    /\ got = NoToken

\* A method of the Lexer can be called by the consumer or by a running LexFn.
Callable == pc \in {"idle", "step", "runStep"}

\* A call returns, leaving the Lexer as l.
Returns(l) ==
    /\ lxr' = l
    /\ UNCHANGED <<input, pc, got>>

DoCurrentTokenIsOneOf ==
    /\ Callable
    /\ \E tokens \in ListsOver(Literals, MaxTokens) :
         Returns(CurrentTokenIsOneOf(lxr, tokens).lxr)

DoCaptureUntilOneOf ==
    /\ Callable
    /\ \E skipWhitespace \in BOOLEAN, tokens \in ListsOver(Literals, MaxTokens) :
         \E o \in CaptureUntilOneOf(lxr, skipWhitespace, tokens) : Returns(o.lxr)

DoCaptureUntil ==
    /\ Callable
    /\ \E skipWhitespace \in BOOLEAN, until \in Literals :
         \E o \in CaptureUntil(lxr, skipWhitespace, until) : Returns(o.lxr)

DoCaptureIdent ==
    /\ Callable
    /\ \E o \in CaptureIdent(lxr) : Returns(o.lxr)

DoConsumeCurrentToken ==
    /\ Callable
    /\ \E clearPrevious \in BOOLEAN :
         \E o \in ConsumeCurrentToken(lxr, clearPrevious) : Returns(o.lxr)

DoSkipCurrentToken ==
    /\ Callable
    /\ \E clearPrevious \in BOOLEAN :
         \E o \in SkipCurrentToken(lxr, clearPrevious) : Returns(o.lxr)

DoEatWhitespace ==
    /\ Callable
    /\ Returns(EatWhitespace(lxr).lxr)

DoFlush ==
    /\ Callable
    /\ Returns(Flush(lxr).lxr)

DoAddIgnoreTokens ==
    /\ Callable
    /\ \E tokens \in ListsOver(IgnoreLiterals, MaxTokens) :
         Returns(AddIgnoreTokens(lxr, tokens))

DoRemoveIgnoreTokens ==
    /\ Callable
    /\ \E tokens \in ListsOver(IgnoreLiterals, MaxTokens) :
         Returns(RemoveIgnoreTokens(lxr, tokens))

\* lxr.AutoEatWhitespace = b, an assignment to the exported field.
SetAutoEatWhitespace ==
    /\ Callable
    /\ \E b \in BOOLEAN : Returns([lxr EXCEPT !.AutoEatWhitespace = b])

\* The calls that act on the cursor, the capture buffer and the ignore filter.
LexNext ==
    \/ DoCurrentTokenIsOneOf
    \/ DoCaptureUntilOneOf
    \/ DoCaptureUntil
    \/ DoCaptureIdent
    \/ DoConsumeCurrentToken
    \/ DoSkipCurrentToken
    \/ DoEatWhitespace
    \/ DoFlush
    \/ DoAddIgnoreTokens
    \/ DoRemoveIgnoreTokens
    \/ SetAutoEatWhitespace

\* The Lexer driven by direct calls of its methods, no LexFn chain running.
InitLex == InitWith(MaxInput)

SpecLex == InitLex /\ [][LexNext]_vars

\* ----------------------------------------------------------- step driver

\* A send on the full channel never returns: nothing receives while the one
\* thread of control is in the send.
Blocks ==
    /\ pc' = "blocked"
    /\ UNCHANGED <<lxr, input, got>>

\* A send on the closed channel, and a close of it, panic.
Panics ==
    /\ pc' = "panicked"
    /\ UNCHANGED <<lxr, input, got>>

\* lxr.tokens <- token: it panics on the closed channel, blocks on the full
\* one, and else the caller goes on as proceed says.
Send(proceed) ==
    IF lxr.closed THEN Panics
    ELSE IF CanSend(lxr) THEN proceed
    ELSE Blocks

DoEmit ==
    /\ Callable
    /\ \E tokenType \in TokenTypes : Send(Returns(Emit(lxr, tokenType)))

DoEmitToken ==
    /\ Callable
    /\ \E token \in CustomTokens : Send(Returns(EmitToken(lxr, token)))

\* The consumer calls NextEmittedToken and reaches its select.
CallNextEmittedToken ==
    /\ pc = "idle"
    /\ pc' = "select"
    /\ got' = NoToken
    /\ UNCHANGED <<lxr, input>>

\* case token := <-lxr.tokens: return token
SelectReceive ==
    /\ pc = "select"
    /\ SelectBranch(lxr) = "receive"
    /\ got' = Head(lxr.tokens)
    /\ lxr' = [lxr EXCEPT !.tokens = Tail(lxr.tokens)]
    /\ pc' = "idle"
    /\ UNCHANGED input

\* default, lxr.state != nil: lxr.state(lxr) is entered
SelectStep ==
    /\ pc = "select"
    /\ SelectBranch(lxr) = "step"
    /\ pc' = "step"
    /\ UNCHANGED <<lxr, input, got>>

\* The running LexFn returns the next LexFn, or nil: lxr.state = that, and
\* the loop of NextEmittedToken is back at its select.
StepReturns ==
    /\ pc = "step"
    /\ \E next \in {"lexFn", "nil"} : lxr' = [lxr EXCEPT !.state = next]
    /\ pc' = "select"
    /\ UNCHANGED <<input, got>>

\* default, lxr.state == nil: the rest of the input is read and dropped and
\* the EOF token is returned.
SelectEOF ==
    /\ pc = "select"
    /\ SelectBranch(lxr) = "eof"
    /\ lxr' = DrainInput(lxr)
    /\ got' = Token(TokenTypeEOF, StringEOF)
    /\ pc' = "idle"
    /\ UNCHANGED input

DriverNext ==
    \/ DoEmit
    \/ DoEmitToken
    \/ CallNextEmittedToken
    \/ SelectReceive
    \/ SelectStep
    \/ StepReturns
    \/ SelectEOF

Init == InitWith(MaxStepInput)

\* case token := <-lxr.tokens on the closed and empty channel: the receive
\* proceeds at once with the zero Token, which is returned.
SelectClosed ==
    /\ pc = "select"
    /\ SelectBranch(lxr) = "closed"
    /\ got' = NilToken
    /\ pc' = "idle"
    /\ UNCHANGED <<lxr, input>>

\* Errorf called by the consumer or by a LexFn that goes on after it.
DoErrorf ==
    /\ Callable
    /\ \E message \in Messages : Send(Returns(Errorf(lxr, message)))

\* The running LexFn ends with "return lxr.Errorf(...)": the error token is
\* sent, lxr.state = nil, and NextEmittedToken is back at its select.
ErrorfReturns(l) ==
    /\ lxr' = [l EXCEPT !.state = "nil"]
    /\ pc' = "select"
    /\ UNCHANGED <<input, got>>

StepReturnsErrorf ==
    /\ pc = "step"
    /\ \E message \in Messages : Send(ErrorfReturns(Errorf(lxr, message)))

\* The loop of Run with its local state: a LexFn is entered while state is
\* not nil; then shutdown() closes the channel and Run returns.
RunLoop(l, state) ==
    IF state # "nil"
    THEN /\ lxr' = l
         /\ pc' = "runStep"
         /\ UNCHANGED <<input, got>>
    ELSE IF l.closed
    THEN Panics
    ELSE /\ lxr' = shutdown(l)
         /\ pc' = "idle"
         /\ UNCHANGED <<input, got>>

\* The consumer calls Run: for state := lxr.begin; ...
CallRun ==
    /\ pc = "idle"
    /\ RunLoop(lxr, lxr.begin)

\* The LexFn that Run runs returns the next LexFn, or nil.
RunStepReturns ==
    /\ pc = "runStep"
    /\ \E next \in {"lexFn", "nil"} : RunLoop(lxr, next)

RunErrorfReturns(l) == RunLoop(l, "nil")

\* The LexFn that Run runs ends with "return lxr.Errorf(...)".
RunStepReturnsErrorf ==
    /\ pc = "runStep"
    /\ \E message \in Messages : Send(RunErrorfReturns(Errorf(lxr, message)))

RunNext ==
    \/ SelectClosed
    \/ DoErrorf
    \/ StepReturnsErrorf
    \/ CallRun
    \/ RunStepReturns
    \/ RunStepReturnsErrorf

\* The calls the consumer and the LexFn bodies make under SpecDrive.
DriveLexNext ==
    \/ DoCaptureUntil
    \/ DoConsumeCurrentToken
    \/ DoFlush

InitDrive == InitWith(MaxDriveInput)

NextDrive == DriveLexNext \/ DriverNext \/ RunNext

\* The Lexer driven by NextEmittedToken and by Run, Errorf included.
SpecDrive == InitDrive /\ [][NextDrive]_vars

\* The calls the consumer and the LexFn bodies make under Spec: they search
\* for one terminator at a time (CaptureUntil); the calls that take a list of
\* literals are those of SpecLex.
StepLexNext ==
    \/ DoCaptureUntil
    \/ DoCaptureIdent
    \/ DoConsumeCurrentToken
    \/ DoSkipCurrentToken
    \/ DoEatWhitespace
    \/ DoFlush
    \/ DoAddIgnoreTokens
    \/ DoRemoveIgnoreTokens
    \/ SetAutoEatWhitespace

Next == StepLexNext \/ DriverNext

\* The Lexer pulled by NextEmittedToken, a LexFn chain running inside it.
Spec == Init /\ [][Next]_vars

\* The input texts that may hold the rune U+0000, whose value is RuneEOF.
InitNul ==
    /\ input \in ListsOver(Alphabet \cup {RuneEOF}, MaxNulInput)
    /\ lxr = NewLexer(input, "lexFn")
    /\ pc = "idle"
    /\ got = NoToken

\* The Lexer driven by direct calls on texts that may hold U+0000.
SpecNul == InitNul /\ [][StepLexNext]_vars

\* The runes of the texts that hold identifiers: ' ', '*', '1', '_', 'a'.
IdentAlphabet == {32, 42, 49, 95, 97}

InitIdent ==
    /\ input \in ListsOver(IdentAlphabet, MaxIdentInput)
    /\ lxr = NewLexer(input, "lexFn")
    /\ pc = "idle"
    /\ got = NoToken

\* The Lexer driven by direct calls on texts that hold identifiers.
SpecIdent == InitIdent /\ [][StepLexNext]_vars

\* The Lexer driven by direct calls that search for one literal at a time.
SpecScan == InitLex /\ [][StepLexNext]_vars

\* ------------------------------------------------- the hashtag lexer

\* The longest text of the alphabet the hashtag lexer is started on.
MaxHashtagInput == 4

\* var tagType TokenType = 1
tagType == 1

\* input := "I like #unicorns and #cheese"
ExampleInput ==
    <<73, 32, 108, 105, 107, 101, 32, 35, 117, 110, 105, 99, 111, 114, 110,
      115, 32, 97, 110, 100, 32, 35, 99, 104, 101, 101, 115, 101>>

\* A LexFn has run: the Lexer it leaves, the LexFn it returns.
Stepped(l, next) == [lxr |-> l, next |-> next]

\* lexPound with ConsumeCurrentToken(false): the text before '#' stays in
\* the capture buffer.
lexPoundKeepsText(l) ==
    UNION { IF c.ret
            THEN { Stepped(o.lxr, "lexTagname")
                   : o \in ConsumeCurrentToken(c.lxr, FALSE) }
            ELSE { Stepped(c.lxr, "nil") }
            : c \in CaptureUntil(l, TRUE, <<35>>) }

\* lexPound: if l.CaptureUntil(true, "#") { l.ConsumeCurrentToken(true);
\* return lexTagname }; return nil
lexPound(l) ==
    UNION { IF c.ret
            THEN { Stepped(o.lxr, "lexTagname")
                   : o \in ConsumeCurrentToken(c.lxr, TRUE) }
            ELSE { Stepped(c.lxr, "nil") }
            : c \in CaptureUntil(l, TRUE, <<35>>) }

\* lexTagname: if l.CaptureIdent() { l.Emit(tagType) }; return lexPound.
\* An Emit that finds the channel full does not return: next is "blocked".
lexTagname(l) ==
    { IF ~c.ret
      THEN Stepped(c.lxr, "lexPound")
      ELSE IF CanSend(c.lxr)
      THEN Stepped(Emit(c.lxr, tagType), "lexPound")
      ELSE Stepped(c.lxr, "blocked")
      : c \in CaptureIdent(l) }

\* lxr.state(lxr) for the two LexFns of the chain.
ExampleLexFn(l) == IF l.state = "lexPound" THEN lexPound(l) ELSE lexTagname(l)

\* lxr.state = lxr.state(lxr): the running LexFn of the chain returns.
ExampleStepReturns ==
    /\ pc = "step"
    /\ \E s \in ExampleLexFn(lxr) :
          IF s.next = "blocked"
          THEN lxr' = s.lxr /\ pc' = "blocked"
          ELSE lxr' = [s.lxr EXCEPT !.state = s.next] /\ pc' = "select"
    /\ UNCHANGED <<input, got>>

\* if l.IsEOF() { break }
ExampleBreaks ==
    /\ pc = "idle"
    /\ IsEOF(lxr)
    /\ pc' = "done"
    /\ UNCHANGED <<lxr, input, got>>

\* token = l.NextEmittedToken()
ExampleCalls == ~IsEOF(lxr) /\ CallNextEmittedToken

InitHashtag ==
    /\ input \in ListsOver(Alphabet, MaxHashtagInput) \cup {ExampleInput}
    /\ lxr = NewLexer(input, "lexPound")
    /\ pc = "idle"
    /\ got = NoToken

NextHashtag ==
    \/ ExampleBreaks
    \/ ExampleCalls
    \/ SelectReceive
    \/ SelectStep
    \/ ExampleStepReturns
    \/ SelectEOF

\* The hashtag lexer of the package example, pulled by the example's loop.
SpecHashtag == InitHashtag /\ [][NextHashtag]_vars

\* ------------------------------------------------ the consumption loop

\* What the LexFn that NextEmittedToken runs does: calls of the Lexer's
\* methods, emissions, and its return.
LoopStepNext ==
    /\ pc = "step"
    /\ \/ StepLexNext
       \/ DoEmit
       \/ StepReturns

InitLoop == InitWith(MaxStepInput)

NextLoop ==
    \/ ExampleBreaks
    \/ ExampleCalls
    \/ SelectReceive
    \/ SelectStep
    \/ LoopStepNext
    \/ SelectEOF

\* A LexFn chain pulled by the loop of the tests and examples:
\* for { if l.IsEOF() { break }; token = l.NextEmittedToken() }
SpecLoop == InitLoop /\ [][NextLoop]_vars

\* ----------------------------------------------------------------- claims

\* The runes the Lexer has still to deliver through read(): the lookahead
\* cache, then the source.
Unread(l) == l.runeCache \o l.inputBuffer

\* The last n runes of text.
Suffix(text, n) == SubSeq(text, Len(text) - n + 1, Len(text))

IsPrefix(t, text) == Len(t) <= Len(text) /\ SubSeq(text, 1, Len(t)) = t

\* The input from the current position on: the current symbol and what follows
\* it in the text NewLexer was given; empty at end-of-input.
Here ==
    IF lxr.currentRune = RuneEOF
    THEN <<>>
    ELSE Suffix(input, Len(Unread(lxr)) + 1)

\* The stream as the Lexer l will deliver it: its current symbol, then Unread.
Pending(l) ==
    IF l.currentRune = RuneEOF THEN <<>> ELSE <<l.currentRune>> \o Unread(l)

\* The k runes that k calls of read() return.
RECURSIVE readRunes(_, _)
readRunes(l, k) ==
    IF k <= 0 THEN <<>> ELSE <<read(l).ret>> \o readRunes(read(l).lxr, k - 1)

\* C1: after any calls, the lookahead cache followed by the unread source is
\* the unconsumed suffix of the original input, in the original order.
C1_LookaheadReplaysInput ==
    Unread(lxr) = Suffix(input, Len(Unread(lxr)))

\* The first non-empty candidate, in list order from i on, that text starts
\* with; "" when there is none.
RECURSIVE FirstMatch(_, _, _)
FirstMatch(tokens, text, i) ==
    IF i > Len(tokens)
    THEN <<>>
    ELSE IF tokens[i] # <<>> /\ IsPrefix(tokens[i], text)
    THEN tokens[i]
    ELSE FirstMatch(tokens, text, i + 1)

\* C2: CurrentTokenIsOneOf(candidates) returns (true, c), c the first non-empty
\* candidate in list order that the input from the current position starts
\* with, and (false, "") when there is none; a candidate that runs past the end
\* of the input does not match.
C2_FirstFullMatchWins ==
    \A tokens \in ListsOver(Literals, MaxTokens) :
        LET want == FirstMatch(tokens, Here, 1)
        IN  CurrentTokenIsOneOf(lxr, tokens).ret = [found |-> want # <<>>, token |-> want]

\* No ignore literal is enabled in l.
NoIgnores(l) == \A k \in DOMAIN l.ignoreTokens : ~l.ignoreTokens[k]

\* Some non-empty terminator of the list is a prefix of text.
SomeMatch(tokens, text) == FirstMatch(tokens, text, 1) # <<>>

\* text without its whitespace runes when skipWhitespace, else text.
RECURSIVE Kept(_, _)
Kept(text, skipWhitespace) ==
    IF text = <<>>
    THEN <<>>
    ELSE (IF skipWhitespace /\ IsSpace(Head(text)) THEN <<>> ELSE <<Head(text)>>)
         \o Kept(Tail(text), skipWhitespace)

\* The offsets k of text at which some terminator matches.
MatchOffsets(tokens, text) ==
    { k \in 0..Len(text) : SomeMatch(tokens, Suffix(text, Len(text) - k)) }

Min(S) == CHOOSE k \in S : \A j \in S : k <= j

\* Under skipWhitespace the whitespace is eaten before a terminator is tried,
\* so the claim is read for the terminators that do not begin with whitespace.
Searchable(tokens, skipWhitespace) ==
    ~skipWhitespace \/ \A i \in 1..Len(tokens) : tokens[i] = <<>> \/ ~IsSpace(tokens[i][1])

\* "some #text!", and its terminators "#" and "!"
SomeText == <<115, 111, 109, 101, 32, 35, 116, 101, 120, 116, 33>>

HashOrBang == << <<35>>, <<33>> >>

\* C3: with no ignore literal enabled, CaptureUntilOneOf stops at the earliest
\* position at or after the cursor where a terminator matches, returns the first
\* terminator in list order matching there, leaves the cursor on that
\* terminator's first symbol with the rest of the input still to come, and
\* appends to the capture buffer exactly the symbols passed over (less the
\* whitespace when skipWhitespace); "some #text!" with terminators "#", "!"
\* gives "#" and the buffer "some " ("some" when whitespace is skipped).
C3_StopsAtEarliestTerminator ==
    /\ NoIgnores(lxr) =>
         \A skipWhitespace \in BOOLEAN, tokens \in ListsOver(Literals, MaxTokens) :
             (Searchable(tokens, skipWhitespace) /\ MatchOffsets(tokens, Here) # {}) =>
                 LET k == Min(MatchOffsets(tokens, Here))
                     rest == Suffix(Here, Len(Here) - k)
                 IN  \A o \in CaptureUntilOneOf(lxr, skipWhitespace, tokens) :
                         /\ o.ret = FirstMatch(tokens, rest, 1)
                         /\ Pending(o.lxr) = rest
                         /\ o.lxr.tokenBuffer =
                                lxr.tokenBuffer \o Kept(SubSeq(Here, 1, k), skipWhitespace)
    /\ \A skipWhitespace \in BOOLEAN :
           \A o \in CaptureUntilOneOf(NewLexer(SomeText, "lexFn"), skipWhitespace, HashOrBang) :
               /\ o.ret = <<35>>
               /\ o.lxr.tokenBuffer = Kept(SubSeq(SomeText, 1, 5), skipWhitespace)

\* C4: right after CaptureUntilOneOf (or CaptureUntil) has found the literal L,
\* ConsumeCurrentToken(clearPrevious) returns true, the capture buffer is L
\* when clearPrevious and the earlier buffer followed by L when not, and the
\* cursor is past all of L.
C4_ConsumeAfterFound ==
    \A skipWhitespace \in BOOLEAN, tokens \in ListsOver(Literals, MaxTokens) :
        \A o \in CaptureUntilOneOf(lxr, skipWhitespace, tokens) :
            o.ret # <<>> =>
                \A clearPrevious \in BOOLEAN :
                    \A c \in ConsumeCurrentToken(o.lxr, clearPrevious) :
                        /\ c.ret
                        /\ c.lxr.tokenBuffer =
                               (IF clearPrevious THEN <<>> ELSE o.lxr.tokenBuffer) \o o.ret
                        /\ Len(Pending(c.lxr)) <= Len(Pending(o.lxr)) - Len(o.ret)

\* What a caller can observe of the cursor and the capture buffer of l.
Observable(l) ==
    [currentRune |-> l.currentRune, unread |-> Unread(l), tokenBuffer |-> l.tokenBuffer]

\* C5: ConsumeCurrentToken and SkipCurrentToken return false when the last
\* matched literal is empty, when it does not match at the current position,
\* or at end-of-input; and when they return false the cursor has not moved, the
\* capture buffer is as it was (also under clearPrevious) and the symbols that
\* read() will deliver are the same.
C5_FailedConsumeChangesNothing ==
    \A clearPrevious \in BOOLEAN :
        \A o \in ConsumeCurrentToken(lxr, clearPrevious)
                   \cup SkipCurrentToken(lxr, clearPrevious) :
            /\ (lxr.lastKnownToken = <<>> \/ ~IsPrefix(lxr.lastKnownToken, Here)) => ~o.ret
            /\ ~o.ret => Observable(o.lxr) = Observable(lxr)

\* The lists of blank terminators: none, "", and "" twice or more.
BlankLists == ListsOver({<<>>}, MaxTokens)

\* C6: CaptureUntil and CaptureUntilOneOf with no terminator, or with blank
\* terminators only, return no-match without reading: the cursor has not moved
\* and the capture buffer is unchanged.
C6_BlankTerminatorsReadNothing ==
    \A skipWhitespace \in BOOLEAN :
        /\ \A tokens \in BlankLists :
               \A o \in CaptureUntilOneOf(lxr, skipWhitespace, tokens) :
                   o.ret = <<>> /\ Observable(o.lxr) = Observable(lxr)
        /\ \A o \in CaptureUntil(lxr, skipWhitespace, <<>>) :
               ~o.ret /\ Observable(o.lxr) = Observable(lxr)

\* C7: every CaptureUntilOneOf / CaptureUntil leaves its own result in
\* lastKnownToken (the literal found, "" on no-match), so that after a call
\* that found nothing no ConsumeCurrentToken or SkipCurrentToken succeeds.
C7_EachSearchOverwritesLastMatch ==
    \A skipWhitespace \in BOOLEAN :
        /\ \A tokens \in ListsOver(Literals, MaxTokens) :
               \A o \in CaptureUntilOneOf(lxr, skipWhitespace, tokens) :
                   /\ o.lxr.lastKnownToken = o.ret
                   /\ o.ret = <<>> =>
                          \A clearPrevious \in BOOLEAN :
                              \A c \in ConsumeCurrentToken(o.lxr, clearPrevious)
                                         \cup SkipCurrentToken(o.lxr, clearPrevious) :
                                  ~c.ret
        /\ \A until \in Literals :
               \A o \in CaptureUntil(lxr, skipWhitespace, until) :
                   o.lxr.lastKnownToken = (IF o.ret THEN until ELSE <<>>)

\* The ignore literals enabled in l.
Enabled(l) == { k \in DOMAIN l.ignoreTokens : l.ignoreTokens[k] }

\* text with every occurrence of a literal of lits deleted, left to right.
RECURSIVE DeleteIgnores(_, _)
DeleteIgnores(text, lits) ==
    IF text = <<>>
    THEN <<>>
    ELSE IF \E t \in lits : IsPrefix(t, text)
    THEN LET t == CHOOSE t \in lits : IsPrefix(t, text)
         IN  DeleteIgnores(SubSeq(text, Len(t) + 1, Len(text)), lits)
    ELSE <<Head(text)>> \o DeleteIgnores(Tail(text), lits)

\* The Lexer l, its stream replaced by the same stream with the occurrences of
\* the enabled ignore literals deleted, and primed as NewLexer primes it.
Stripped(l) ==
    read([l EXCEPT !.runeCache = <<>>,
                   !.inputBuffer = DeleteIgnores(Pending(l), Enabled(l)),
                   !.currentRune = 0]).lxr

\* What a capture yields: the value returned and the capture buffer.
Captured(os) == { [ret |-> o.ret, tokenBuffer |-> o.lxr.tokenBuffer] : o \in os }

\* C8: CaptureUntil, CaptureUntilOneOf and CaptureIdent return the same value
\* and leave the same capture buffer as they do on the input with every
\* occurrence of the enabled ignore literals deleted. Stated for a lexer whose
\* lookahead cache is empty and for a single terminator, where every lookahead
\* of the search has the same size.
C8_IgnoresAreInvisible ==
    lxr.runeCache = <<>> =>
        /\ \A skipWhitespace \in BOOLEAN, until \in Literals :
               /\ Captured(CaptureUntil(lxr, skipWhitespace, until))
                    = Captured(CaptureUntil(Stripped(lxr), skipWhitespace, until))
               /\ Captured(CaptureUntilOneOf(lxr, skipWhitespace, <<until>>))
                    = Captured(CaptureUntilOneOf(Stripped(lxr), skipWhitespace, <<until>>))
        /\ Captured(CaptureIdent(lxr)) = Captured(CaptureIdent(Stripped(lxr)))

\* The number of places of text at which the literal L occurs.
Occurrences(L, text) ==
    Cardinality({ k \in 1..Len(text) : IsPrefix(L, Suffix(text, Len(text) - k + 1)) })

\* The literals AddIgnoreTokens accepts.
NonBlankIgnores == { t \in IgnoreLiterals : NotBlank(t) }

\* The lexers a capture started from l by a consumer or a LexFn can leave.
CapturesFrom(l) ==
    UNION { { o.lxr : o \in CaptureUntil(l, skipWhitespace, until) }
            : skipWhitespace \in BOOLEAN, until \in Literals }
    \cup { o.lxr : o \in CaptureIdent(l) }

\* C9: RemoveIgnoreTokens(L) and AddIgnoreTokens(L) take effect at once, in the
\* consumer and inside a running LexFn alike; and while L is not enabled no
\* capture skips an occurrence of L: every occurrence of L the capture passes
\* over is in the capture buffer.
C9_RemovedLiteralIsCaptured ==
    \A L \in NonBlankIgnores :
        /\ L \in Enabled(AddIgnoreTokens(lxr, <<L>>))
        /\ L \notin Enabled(RemoveIgnoreTokens(lxr, <<L>>))
        /\ L \notin Enabled(lxr) =>
               \A after \in CapturesFrom(lxr) :
                   Occurrences(L, after.tokenBuffer) - Occurrences(L, lxr.tokenBuffer)
                     = Occurrences(L, Pending(lxr)) - Occurrences(L, Pending(after))

\* A LexFn is running, it has removed "*" from the ignore filter, the cursor is
\* on a "*", and a capture from here puts that "*" in the capture buffer.
C9_Witness ==
    /\ pc = "step"
    /\ <<42>> \in DOMAIN lxr.ignoreTokens
    /\ ~lxr.ignoreTokens[<<42>>]
    /\ lxr.currentRune = 42
    /\ \E o \in CaptureUntil(lxr, FALSE, <<35>>) :
           o.lxr.tokenBuffer = Append(lxr.tokenBuffer, 42)

\* C10: at its select NextEmittedToken returns the head of the queue when a
\* token is queued; when none is and a LexFn is left it runs that one LexFn and
\* comes back to the select. So a LexFn is entered only from the select with
\* the queue empty, and none is entered once a token is queued.
C10_PullDriven ==
    [][ /\ (pc = "select" /\ Len(lxr.tokens) > 0) =>
              /\ pc' = "idle"
              /\ got' = Head(lxr.tokens)
              /\ lxr' = [lxr EXCEPT !.tokens = Tail(lxr.tokens)]
        /\ (pc = "select" /\ Len(lxr.tokens) = 0 /\ lxr.state # "nil") =>
              /\ pc' = "step"
              /\ lxr' = lxr
        /\ (pc # "step" /\ pc' = "step") => (pc = "select" /\ Len(lxr.tokens) = 0)
        /\ (pc = "step" /\ pc' \notin {"step", "blocked"}) => pc' = "select"
      ]_vars

\* NextEmittedToken found the queue empty and entered a LexFn, which has
\* emitted: the next select returns that token without running a LexFn.
C10_Witness == pc = "step" /\ Len(lxr.tokens) > 0

\* The token NextEmittedToken returns at the end of the input.
EOFToken == Token(TokenTypeEOF, StringEOF)

\* NextEmittedToken returns in this step.
NextEmittedTokenReturns == pc = "select" /\ pc' = "idle"

\* C11: the queue is changed only by an emission, which puts its token at the
\* tail, and by NextEmittedToken, which takes the head and returns it; when a
\* token is queued NextEmittedToken returns the head of the queue, so tokens
\* are delivered in the order of their emission, each once, and the
\* end-of-input token is returned only when no token is queued.
C11_DeliveredInEmissionOrder ==
    [][ /\ lxr'.tokens # lxr.tokens =>
              \/ /\ Len(lxr'.tokens) = Len(lxr.tokens) + 1
                 /\ SubSeq(lxr'.tokens, 1, Len(lxr.tokens)) = lxr.tokens
                 /\ ~NextEmittedTokenReturns
                 /\ got' = got
              \/ /\ NextEmittedTokenReturns
                 /\ Len(lxr.tokens) > 0
                 /\ lxr'.tokens = Tail(lxr.tokens)
                 /\ got' = Head(lxr.tokens)
        /\ (NextEmittedTokenReturns /\ Len(lxr.tokens) > 0) =>
              /\ got' = Head(lxr.tokens)
              /\ lxr'.tokens = Tail(lxr.tokens)
        /\ (NextEmittedTokenReturns /\ got' = EOFToken) => lxr.tokens = <<>>
      ]_vars

\* A LexFn has sent a custom token with EmitToken and then returned Errorf:
\* NextEmittedToken has returned the custom token, the error token is queued.
C11_Witness ==
    /\ pc = "idle"
    /\ got \in CustomTokens
    /\ Len(lxr.tokens) > 0
    /\ Head(lxr.tokens).tokenType = TokenTypeError

\* A LexFn has returned nil: to NextEmittedToken, which keeps it in lxr.state,
\* or to Run, which then closes the channel.
Terminal(l) == l.state = "nil" \/ l.closed

\* C12: when a LexFn has returned nil and no token is queued, the call of
\* NextEmittedToken returns the token of type TokenTypeEOF and value "EOF",
\* and IsEOF() is true afterwards; the call does not block.
C12_EOFTokenForever ==
    [][ (pc = "select" /\ Terminal(lxr) /\ lxr.tokens = <<>>) =>
            /\ pc' = "idle"
            /\ got' = EOFToken
            /\ IsEOF(lxr')
      ]_vars

\* C13: the thread of control is never stuck in a send on the full channel:
\* Emit, EmitToken and Errorf always return.
C13_EmissionNeverBlocks == pc # "blocked"

\* Run returns in this step: shutdown() has closed the channel.
RunReturns == ~lxr.closed /\ lxr'.closed

\* C14: when Run returns the channel is closed, nothing of the input remains
\* to be read and IsEOF() is true; the capture buffer is as the last LexFn
\* left it.
C14_RunDrainsAndCloses ==
    [][ RunReturns =>
            /\ lxr'.closed
            /\ Unread(lxr') = <<>>
            /\ IsEOF(lxr')
            /\ lxr'.tokenBuffer = lxr.tokenBuffer
      ]_vars

\* C15: after Run has returned, NextEmittedToken returns the head of the
\* queue while a token is queued and the EOF token once none is; it never
\* returns the zero Token and never enters a LexFn.
C15_AfterRunTokensThenEOF ==
    [][ (pc = "select" /\ lxr.closed) =>
            /\ pc' = "idle"
            /\ IF Len(lxr.tokens) > 0
               THEN got' = Head(lxr.tokens) /\ lxr'.tokens = Tail(lxr.tokens)
               ELSE got' = EOFToken
            /\ got' # NilToken
      ]_vars

\* The lexers that one call of a method that moves the cursor can leave.
AfterAnyCall(l) ==
    UNION { { o.lxr : o \in CaptureUntil(l, skipWhitespace, until) }
            : skipWhitespace \in BOOLEAN, until \in Literals }
    \cup { o.lxr : o \in CaptureIdent(l) }
    \cup UNION { { o.lxr : o \in ConsumeCurrentToken(l, clearPrevious)
                             \cup SkipCurrentToken(l, clearPrevious) }
                 : clearPrevious \in BOOLEAN }
    \cup { EatWhitespace(l).lxr, read(l).lxr }

\* C16: IsEOF() is false while a symbol of the input is still to be read,
\* whatever the symbols are; once it is true it is true after every later
\* call, and read() at the end of the input returns RuneEOF.
C16_EOFOnlyAtEndAndForGood ==
    IsEOF(lxr) =>
        /\ Unread(lxr) = <<>>
        /\ read(lxr).ret = RuneEOF
        /\ \A after \in AfterAnyCall(lxr) : IsEOF(after)

\* An Errorf call sends its token in this step.
ErrorfSends ==
    /\ Len(lxr'.tokens) = Len(lxr.tokens) + 1
    /\ lxr'.tokens[Len(lxr'.tokens)].tokenType = TokenTypeError

\* The LexFn that was running returns in this step.
LexFnReturns == pc \in {"step", "runStep"} /\ pc' \notin {pc, "blocked", "panicked"}

\* C17: Errorf puts one token of type TokenTypeError, whose value is the
\* message, at the tail of the queue and changes nothing else of the Lexer;
\* a LexFn that returns its result leaves the chain terminal; from then on no
\* LexFn is entered by NextEmittedToken, which returns the queued tokens from
\* the head (the error token after those queued before it); and when it has
\* returned the error token and nothing is queued, the select of its next
\* call takes the branch that returns the EOF token.
C17_ErrorfEndsTheChain ==
    [][ /\ ErrorfSends =>
              /\ \E message \in Messages :
                     lxr'.tokens = Append(lxr.tokens, Token(TokenTypeError, message))
              /\ [lxr' EXCEPT !.tokens = lxr.tokens,
                              !.state = lxr.state,
                              !.closed = lxr.closed] = lxr
              /\ LexFnReturns => Terminal(lxr')
              /\ ~LexFnReturns => (lxr'.state = lxr.state /\ lxr'.closed = lxr.closed)
        /\ (pc # "step" /\ pc' = "step") => ~Terminal(lxr)
        /\ lxr.state = "nil" => lxr'.state = "nil"
        /\ (pc = "select" /\ Terminal(lxr) /\ Len(lxr.tokens) > 0) =>
              /\ pc' = "idle"
              /\ got' = Head(lxr.tokens)
              /\ lxr'.tokens = Tail(lxr.tokens)
        /\ (pc = "idle" /\ got.tokenType = TokenTypeError
                         /\ Terminal(lxr) /\ lxr.tokens = <<>>) =>
              SelectBranch(lxr) = "eof"
      ]_vars

\* The cursor of l: its current symbol and what it has still to read.
Cursor(l) ==
    [currentRune |-> l.currentRune, runeCache |-> l.runeCache,
     inputBuffer |-> l.inputBuffer]

\* l2 has the cursor and the last matched literal of l1.
SamePosition(l1, l2) ==
    Cursor(l1) = Cursor(l2) /\ l1.lastKnownToken = l2.lastKnownToken

\* C18: Emit(t) queues a token of type t whose value is the capture buffer and
\* leaves the buffer empty; EmitToken(token) queues token and leaves the
\* buffer as it was; Flush() returns the capture buffer, leaves it empty and
\* queues nothing; none of them moves the cursor or changes the last matched
\* literal. (Emit and EmitToken as they return, the channel having room.)
C18_EmitAndFlushFrame ==
    /\ \A tokenType \in TokenTypes :
           LET e == Emit(lxr, tokenType)
           IN  /\ e.tokens = Append(lxr.tokens, Token(tokenType, lxr.tokenBuffer))
               /\ e.tokenBuffer = <<>>
               /\ SamePosition(lxr, e)
    /\ \A token \in CustomTokens :
           LET e == EmitToken(lxr, token)
           IN  /\ e.tokens = Append(lxr.tokens, token)
               /\ e.tokenBuffer = lxr.tokenBuffer
               /\ SamePosition(lxr, e)
    /\ LET f == Flush(lxr)
       IN  /\ f.ret = lxr.tokenBuffer
           /\ f.lxr.tokenBuffer = <<>>
           /\ f.lxr.tokens = lxr.tokens
           /\ SamePosition(lxr, f.lxr)

\* A literal was found and consumed into the capture buffer, and Emit has
\* queued the buffer: the token holds the literal, the buffer is empty, the
\* last matched literal is still set.
C18_Witness ==
    /\ Len(lxr.tokens) > 0
    /\ lxr.tokens[Len(lxr.tokens)].tokenType \in TokenTypes
    /\ lxr.tokens[Len(lxr.tokens)].value # <<>>
    /\ lxr.tokens[Len(lxr.tokens)].value = lxr.lastKnownToken
    /\ lxr.tokenBuffer = <<>>

\* The symbols of an identifier in IdentAlphabet: the digit, the underscore,
\* the letter.
IdentSymbols == {49, 95, 97}

\* The whitespace of the alphabets: the space.
Blanks == {32}

\* The length of the longest prefix of text whose symbols are all in class.
RECURSIVE RunLength(_, _)
RunLength(text, class) ==
    IF text # <<>> /\ Head(text) \in class
    THEN 1 + RunLength(Tail(text), class)
    ELSE 0

\* text without its longest prefix of symbols of class.
DropRun(text, class) == SubSeq(text, RunLength(text, class) + 1, Len(text))

\* text without its leading whitespace when auto-eat is on.
AfterLeadingSpace(l, text) ==
    IF l.AutoEatWhitespace THEN DropRun(text, Blanks) ELSE text

Positions(os) ==
    { [ret |-> o.ret, currentRune |-> o.lxr.currentRune, unread |-> Unread(o.lxr)]
      : o \in os }

\* C20: from the same Lexer, SkipCurrentToken(c) and ConsumeCurrentToken(c)
\* return the same value and leave the same current symbol and the same
\* symbols to be read; SkipCurrentToken writes nothing to the capture buffer:
\* when it skips, the buffer is empty after skip(true) and as it was after
\* skip(false), and when it returns false the buffer is as it was.
C20_SkipAdvancesAsConsume ==
    \A clearPrevious \in BOOLEAN :
        /\ Positions(SkipCurrentToken(lxr, clearPrevious))
             = Positions(ConsumeCurrentToken(lxr, clearPrevious))
        /\ \A o \in SkipCurrentToken(lxr, clearPrevious) :
               o.lxr.tokenBuffer =
                   IF o.ret /\ clearPrevious THEN <<>> ELSE lxr.tokenBuffer

\* Text is in the capture buffer, a search has found a literal of two
\* symbols or more, and the cursor is on it: a skip and a consume succeed.
C20_Witness ==
    /\ lxr.tokenBuffer # <<>>
    /\ Len(lxr.lastKnownToken) > 1
    /\ \E o \in SkipCurrentToken(lxr, TRUE) : o.ret
    /\ \E o \in ConsumeCurrentToken(lxr, FALSE) : o.ret


\* NextEmittedToken() run from its select to its return with the chain of
\* the hashtag lexer: the Lexer it leaves and the token it returns. A call
\* that does not return has no outcome.
RECURSIVE NextEmittedToken(_)
NextEmittedToken(l) ==
    LET branch == SelectBranch(l)
    IN  IF branch = "receive"
        THEN {Outcome([l EXCEPT !.tokens = Tail(l.tokens)], Head(l.tokens))}
        ELSE IF branch = "closed"
        THEN {Outcome(l, NilToken)}
        ELSE IF branch = "eof"
        THEN {Outcome(DrainInput(l), EOFToken)}
        ELSE UNION { IF s.next = "blocked"
                     THEN {}
                     ELSE NextEmittedToken([s.lxr EXCEPT !.state = s.next])
                     : s \in ExampleLexFn(l) }

\* What the loop of the example prints from the Lexer l on: the tokens of
\* tagType that NextEmittedToken returns until IsEOF() is true.
RECURSIVE ExampleOutput(_)
ExampleOutput(l) ==
    IF IsEOF(l)
    THEN {<<>>}
    ELSE UNION { { (IF o.ret.tokenType = tagType THEN <<o.ret>> ELSE <<>>) \o rest
                   : rest \in ExampleOutput(o.lxr) }
                 : o \in NextEmittedToken(l) }

\* The symbols of an identifier: the letters, the digits, the underscore.
WordSymbols == (48..57) \cup (65..90) \cup {95} \cup (97..122)

\* The hashtags of a text, in the order of the text: every '#' with the
\* identifier that follows it, blanks between the two passed over.
RECURSIVE Hashtags(_)
Hashtags(text) ==
    IF text = <<>>
    THEN <<>>
    ELSE IF Head(text) # 35
    THEN Hashtags(Tail(text))
    ELSE LET rest == DropRun(Tail(text), Blanks)
             n    == RunLength(rest, WordSymbols)
         IN  IF n = 0
             THEN Hashtags(rest)
             ELSE <<Token(tagType, <<35>> \o SubSeq(rest, 1, n))>>
                    \o Hashtags(DropRun(rest, WordSymbols))

\* "#unicorns", "#cheese"
UnicornsAndCheese ==
    << Token(tagType, <<35, 117, 110, 105, 99, 111, 114, 110, 115>>),
       Token(tagType, <<35, 99, 104, 101, 101, 115, 101>>) >>

\* C21: with the chain lexPound, lexTagname of the example, the tokens of
\* the tag type that the loop of the example is delivered, from any turn of
\* the loop on, are one token "#"+identifier for each hashtag of the input
\* still to be read, in the order of the input and nothing else (a hashtag is
\* a '#' with the identifier after it, whitespace between them skipped as
\* AutoEatWhitespace is on); for "I like #unicorns and #cheese" they are
\* "#unicorns", "#cheese".
C21_HashtagsDelivered ==
    /\ pc = "idle" => ExampleOutput(lxr) = {Hashtags(Pending(lxr))}
    /\ (pc = "idle" /\ got = NoToken /\ input = ExampleInput)
           => ExampleOutput(lxr) = {UnicornsAndCheese}

\* The loop of the example has ended on "I like #unicorns and #cheese", the
\* last token delivered being "#cheese".
C21_Witness ==
    /\ pc = "done"
    /\ input = ExampleInput
    /\ got = UnicornsAndCheese[2]


\* The terminators that hold no whitespace: "#", "#a", "#a*".
SolidLiterals == { t \in Literals : t # <<>> /\ \A i \in 1..Len(t) : t[i] \notin Blanks }

\* What a capture from lxr appended to the capture buffer.
Appended(o) == SubSeq(o.lxr.tokenBuffer, Len(lxr.tokenBuffer) + 1, Len(o.lxr.tokenBuffer))

\* text with its whitespace symbols deleted.
RECURSIVE Unspaced(_)
Unspaced(text) ==
    IF text = <<>>
    THEN <<>>
    ELSE IF Head(text) \in Blanks
    THEN Unspaced(Tail(text))
    ELSE <<Head(text)>> \o Unspaced(Tail(text))

\* C22: when no terminator and no enabled ignore literal holds whitespace,
\* CaptureUntil and CaptureUntilOneOf called with skipWhitespace = true append
\* no whitespace symbol to the capture buffer, and what they append is what
\* the same call with skipWhitespace = false appends, its whitespace deleted.
C22_SkipWhitespaceOnlyDropsWhitespace ==
    (\A k \in Enabled(lxr) : Unspaced(k) = k) =>
        /\ \A until \in SolidLiterals :
               /\ \A o \in CaptureUntil(lxr, TRUE, until) :
                      Unspaced(Appended(o)) = Appended(o)
               /\ { Appended(o) : o \in CaptureUntil(lxr, TRUE, until) }
                    = { Unspaced(Appended(o)) : o \in CaptureUntil(lxr, FALSE, until) }
        /\ \A t \in SolidLiterals :
               { Appended(o) : o \in CaptureUntilOneOf(lxr, TRUE, <<t, <<35>> >>) }
                 = { Unspaced(Appended(o)) : o \in CaptureUntilOneOf(lxr, FALSE, <<t, <<35>> >>) }

\* An ignore literal is enabled and the search for "#" passes whitespace:
\* with skipWhitespace = false it appends more than with skipWhitespace = true,
\* and with true it appends something.
C22_Witness ==
    /\ Enabled(lxr) # {}
    /\ \E o \in CaptureUntil(lxr, TRUE, <<35>>), q \in CaptureUntil(lxr, FALSE, <<35>>) :
          /\ o.ret /\ q.ret
          /\ Appended(o) # <<>>
          /\ Len(Appended(q)) > Len(Appended(o))


\* The outcomes of ConsumeCurrentToken and of SkipCurrentToken from lxr that
\* return true.
Advanced ==
    UNION { { o \in ConsumeCurrentToken(lxr, clearPrevious) : o.ret }
            \cup { o \in SkipCurrentToken(lxr, clearPrevious) : o.ret }
            : clearPrevious \in BOOLEAN }

\* The stream of lxr after the literal found last, which is at the cursor.
AfterLiteral ==
    SubSeq(Pending(lxr), Len(lxr.lastKnownToken) + 1, Len(Pending(lxr)))

\* C23: after ConsumeCurrentToken or SkipCurrentToken has returned true, with
\* AutoEatWhitespace on the cursor is at end-of-input or on a symbol that is
\* not whitespace and at which no enabled ignore literal matches; with
\* AutoEatWhitespace off nothing after the matched literal has been eaten:
\* the cursor is on the symbol that follows the literal. (Stated of the calls
\* made with an empty lookahead cache, whose stream is the input.)
C23_TrailingEatenIffAutoEat ==
    lxr.runeCache = <<>> =>
        \A o \in Advanced :
            IF lxr.AutoEatWhitespace
            THEN \/ IsEOF(o.lxr)
                 \/ /\ ~IsSpace(o.lxr.currentRune)
                    /\ \A k \in Enabled(o.lxr) : ~IsPrefix(k, Pending(o.lxr))
            ELSE Pending(o.lxr) = AfterLiteral


\* The literals the ignore set is widened with to have several of them match
\* at one position: "*", "*a", "*a*".
StarLiterals == {<<42>>, <<42, 97>>, <<42, 97, 42>>}

\* The Lexers that lxr becomes by one call of AddIgnoreTokens with literals
\* of StarLiterals, lxr itself among them.
WithStarIgnores ==
    { AddIgnoreTokens(lxr, tokens) : tokens \in ListsOver(StarLiterals, MaxTokens) }

\* The enabled ignore literals of l that match at its cursor.
MatchingIgnores(l) == { k \in Enabled(l) : IsPrefix(k, Pending(l)) }

\* C24: skipIgnores(), when an enabled ignore literal matches at the cursor,
\* returns true with the cursor moved past one of the matching literals, by
\* the number of symbols of that literal, and the capture buffer as it was;
\* when none matches it returns false and the current symbol, the capture
\* buffer and the symbols still to come are as they were.
C24_SkipIgnoresFrame ==
    \A l \in WithStarIgnores :
        \A o \in skipIgnores(l) :
            /\ o.lxr.tokenBuffer = l.tokenBuffer
            /\ o.ret = (MatchingIgnores(l) # {})
            /\ o.ret => \E k \in MatchingIgnores(l) :
                           Pending(o.lxr) = SubSeq(Pending(l), Len(k) + 1, Len(Pending(l)))
            /\ ~o.ret => Pending(o.lxr) = Pending(l)


\* Terminators that begin with whitespace: " ", " #", "  ".
SpaceLed == {<<32>>, <<32, 35>>, <<32, 32>>}

\* C25: in the loop of CaptureUntil and CaptureUntilOneOf whitespace is
\* skipped first, ignore literals next, and the terminators are tested last
\* (the test for end-of-input standing between them): from a position where
\* an enabled ignore literal and the terminator both match, the search does
\* not report the terminator there (it reports it further on or not at all);
\* and with skipWhitespace = true a terminator that begins with whitespace is
\* never reported.
C25_IgnoresBeforeTerminators ==
    /\ \A l \in WithStarIgnores : \A t \in StarLiterals, skipWhitespace \in BOOLEAN :
           (MatchingIgnores(l) # {} /\ IsPrefix(t, Pending(l))) =>
               \A o \in CaptureUntil(l, skipWhitespace, t) :
                   o.ret => Len(Pending(o.lxr)) < Len(Pending(l))
    /\ \A t \in SpaceLed :
           /\ \A o \in CaptureUntil(lxr, TRUE, t) : ~o.ret
           /\ \A o \in CaptureUntilOneOf(lxr, TRUE, <<t, <<35>> >>) : o.ret # t
           /\ \A o \in CaptureUntilOneOf(lxr, TRUE, <<t, <<32, 35>> >>) : o.ret = <<>>

\* The ignore literal "*a" and the terminator "*" both match at the cursor,
\* and the search reports the terminator further on.
C25_Witness ==
    \E l \in WithStarIgnores :
        /\ MatchingIgnores(l) # {}
        /\ IsPrefix(<<42>>, Pending(l))
        /\ \E o \in CaptureUntil(l, FALSE, <<42>>) : o.ret


\* C26: in the loop that stops when IsEOF() and else takes NextEmittedToken(),
\* IsEOF() is never true at the head of the loop, nor after the loop has
\* stopped, while a token the chain has emitted is still in the channel: the
\* loop is delivered every token the chain emitted.
C26_LoopDeliversEveryToken ==
    (pc \in {"idle", "done"} /\ IsEOF(lxr)) => lxr.tokens = <<>>


\* The symbols the Lexer l has not passed yet: the current one, unless the
\* cursor is at end-of-input, and those still to be read.
Left(l) == Len(Unread(l)) + (IF l.currentRune = RuneEOF THEN 0 ELSE 1)

\* lxr, and lxr with the ignore literals "*a", "*" enabled.
WithIgnores == {lxr, AddIgnoreTokens(lxr, << <<42, 97>>, <<42>> >>)}

\* The outcomes os of a primitive called on the Lexer l: there is one, and
\* none has more symbols left than l.
Forward(l, os) == os # {} /\ \A o \in os : Left(o.lxr) <= Left(l)

\* The lists of terminators of the searches: "#a" then "#", " " then "#a*".
TerminatorLists == { << <<35, 97>>, <<35>> >>, << <<32>>, <<35, 97, 42>> >> }

\* C27: on every input and with every ignore set each capture primitive
\* (CaptureUntil, CaptureUntilOneOf, CaptureIdent, ConsumeCurrentToken,
\* SkipCurrentToken, EatWhitespace) returns, and the cursor has not moved
\* backwards: no more symbols are left than before; the steps that make the
\* loops go round each move the cursor on: an ignore literal skipped and
\* whitespace eaten pass at least one symbol, so does a read away from a
\* symbol, and a consume or skip that returns true passes at least the
\* symbols of the literal.
C27_PrimitivesMoveForward ==
    \A l \in WithIgnores :
        /\ \A b \in BOOLEAN :
               /\ \A t \in {<<35>>, <<35, 97, 42>>} : Forward(l, CaptureUntil(l, b, t))
               /\ \A tokens \in TerminatorLists :
                      Forward(l, CaptureUntilOneOf(l, b, tokens))
               /\ Forward(l, ConsumeCurrentToken(l, b))
               /\ Forward(l, SkipCurrentToken(l, b))
               /\ \A o \in ConsumeCurrentToken(l, b) \cup SkipCurrentToken(l, b) :
                      o.ret => Left(o.lxr) + Len(l.lastKnownToken) <= Left(l)
        /\ Forward(l, CaptureIdent(l))
        /\ Forward(l, {EatWhitespace(l)})
        /\ \A o \in skipIgnores(l) : o.ret => Left(o.lxr) < Left(l)
        /\ IsSpace(l.currentRune) => Left(EatWhitespace(l).lxr) < Left(l)
        /\ ~IsEOF(l) => Left(read(l).lxr) < Left(l)

\* A search that skips whitespace passes an ignore literal and leaves at
\* least two symbols fewer than there were.
C27_Witness ==
    \E l \in WithIgnores :
        /\ MatchingIgnores(l) # {}
        /\ \E o \in CaptureUntil(l, TRUE, <<35>>) : Left(o.lxr) + 2 <= Left(l)


\* Lists of terminators with a terminator that is not blank: those of
\* TerminatorLists, "#" alone, "" then "#a".
SearchLists == TerminatorLists \cup { << <<35>> >>, << <<>>, <<35, 97>> >> }

\* The symbols from the cursor of l on that are not part of an enabled ignore
\* literal, less the whitespace when skipWhitespace.
Remaining(l, skipWhitespace) ==
    Kept(DeleteIgnores(Pending(l), Enabled(l)), skipWhitespace)

\* C28: a CaptureUntilOneOf (CaptureUntil) with a terminator that is not
\* blank that finds no terminator returns "" (false) with the cursor at
\* end-of-input, lastKnownToken empty, and the capture buffer holding what it
\* held followed by every symbol that remained, the ignored ones (and the
\* whitespace when skipWhitespace) left out.
C28_NoMatchReadsToTheEnd ==
    \A skipWhitespace \in BOOLEAN, tokens \in SearchLists :
        \A o \in CaptureUntilOneOf(lxr, skipWhitespace, tokens) :
            o.ret = <<>> =>
                /\ IsEOF(o.lxr)
                /\ o.lxr.lastKnownToken = <<>>
                /\ o.lxr.tokenBuffer = lxr.tokenBuffer \o Remaining(lxr, skipWhitespace)


\* The literals handed to AddIgnoreTokens and RemoveIgnoreTokens: "", " ",
\* "  ", "*", "*a".
ListedLiterals == IgnoreLiterals \cup {<<32, 32>>, <<42, 97>>}

\* The lists of literals handed to them: none, one literal, two literals.
ListedLists ==
    {<<>>} \cup { <<k>> : k \in ListedLiterals }
           \cup { <<k, j>> : k, j \in ListedLiterals }

\* A literal with a symbol that is not whitespace.
Solid(k) == \E i \in 1..Len(k) : k[i] \notin Blanks

\* C29: no key of the ignore set is empty or all whitespace, whatever
\* literals AddIgnoreTokens and RemoveIgnoreTokens are handed, so that a
\* skipIgnores that returns true has passed at least one symbol; a second
\* AddIgnoreTokens or RemoveIgnoreTokens with the same literals changes
\* nothing; and of an add and a remove of a literal the later one decides
\* whether it is enabled.
C29_IgnoreSetIsSolid ==
    /\ \A k \in DOMAIN lxr.ignoreTokens : Solid(k)
    /\ \A o \in skipIgnores(lxr) : o.ret => Left(o.lxr) < Left(lxr)
    /\ \A tokens \in ListedLists :
           LET added   == AddIgnoreTokens(lxr, tokens)
               removed == RemoveIgnoreTokens(lxr, tokens)
           IN  /\ \A k \in DOMAIN added.ignoreTokens \cup DOMAIN removed.ignoreTokens :
                      Solid(k)
               /\ AddIgnoreTokens(added, tokens) = added
               /\ RemoveIgnoreTokens(removed, tokens) = removed
               /\ \A i \in 1..Len(tokens) :
                      Solid(tokens[i]) =>
                          /\ tokens[i] \in Enabled(AddIgnoreTokens(removed, tokens))
                          /\ tokens[i] \notin Enabled(RemoveIgnoreTokens(added, tokens))
                          /\ tokens[i] \in Enabled(added)
                          /\ tokens[i] \notin Enabled(removed)
               /\ \A k \in DOMAIN lxr.ignoreTokens :
                      (\A i \in 1..Len(tokens) : tokens[i] # k) =>
                          /\ (k \in Enabled(added)) = (k \in Enabled(lxr))
                          /\ (k \in Enabled(removed)) = (k \in Enabled(lxr))

\* "*" has been added to the ignore set and removed again, and the cursor
\* is on a '*'.
C29_Witness ==
    /\ <<42>> \in DOMAIN lxr.ignoreTokens
    /\ ~lxr.ignoreTokens[<<42>>]
    /\ lxr.currentRune = 42


\* The Lexer is as NewLexer returned it: the consumer has called nothing yet.
JustConstructed == pc = "idle" /\ got = NoToken

\* C30: directly after NewLexer the current symbol is the first symbol of
\* the input, RuneEOF for the empty input, and the rest of the input is still
\* to be read; the capture buffer, the lookahead cache, the ignore set and
\* the channel are empty, lastKnownToken is empty, AutoEatWhitespace is on,
\* and the state is the LexFn given as begin.
C30_NewLexerPrimesTheCursor ==
    JustConstructed =>
        /\ lxr.currentRune = (IF input = <<>> THEN RuneEOF ELSE input[1])
        /\ IsEOF(lxr) = (input = <<>>)
        /\ Unread(lxr) = (IF input = <<>> THEN <<>> ELSE Tail(input))
        /\ lxr.tokenBuffer = <<>>
        /\ lxr.runeCache = <<>>
        /\ DOMAIN lxr.ignoreTokens = {}
        /\ lxr.tokens = <<>>
        /\ ~lxr.closed
        /\ lxr.lastKnownToken = <<>>
        /\ lxr.AutoEatWhitespace
        /\ lxr.state = "lexPound"
        /\ lxr.begin = "lexPound"

\* NewLexer has returned the Lexer of "I like #unicorns and #cheese".
C30_Witness == JustConstructed /\ input = ExampleInput /\ lxr.currentRune = 73

====
